---- MODULE Spec2Model ----
(***************************************************************************)
(* Model of the class-unload tracker (src/share/back/classTrack.c).        *)
(*                                                                         *)
(* The tracker keeps a singly linked list of KlassNode records, one per    *)
(* prepared class, each carrying the JVMTI tag the class object was given  *)
(* in a private tracking environment.  classTrack_processUnloads walks     *)
(* the list, asks the environment how many live objects carry each tag,    *)
(* splices the records of dead classes onto a pending-deletion chain and   *)
(* deleteList moves their signatures into a bag while freeing the records. *)
(*                                                                         *)
(* One thread runs the module's operations (they are called under the      *)
(* handlerLock); pc is its position.  The virtual machine is the           *)
(* environment: it unloads classes at any time and may corrupt the tag     *)
(* namespace.                                                              *)
(*                                                                         *)
(* SpecDup adds callers that break the contract of the add, SpecUnlocked   *)
(* a second thread that adds without the handlerLock, SpecLive fairness    *)
(* for the thread inside a pass.  The last part models the DDM command     *)
(* set (src/share/back/DDMImpl.c) under SpecDDM.                           *)
(***************************************************************************)
EXTENDS Integers, Sequences, FiniteSets, TLC

\* ---------------------------------------------------------------- bounds
NumClasses == 3     \* class objects the virtual machine ever holds
MaxNodes   == 4     \* KlassNode allocations in one run
MaxInits   == 2     \* calls of classTrack_initialize in one run
MaxForeign == 1     \* tags an outside agent attaches to a foreign object
MaxDups    == 1     \* adds of a class that is tracked already, in one run
MaxRaces   == 1     \* adds made without the handlerLock, in one run
MaxLen     == 2     \* bytes of data in a DDM chunk, request or reply

\* ------------------------------------------------------------- constants
NULL == 0

\* The two flags of the JVMTI class status word that line 256 names.
JVMTI_CLASS_STATUS_PREPARED == 2
JVMTI_CLASS_STATUS_ARRAY    == 16

Classes == 1..NumClasses

\* The status words classStatus answers with: 0 (loaded only), 1 (verified),
\* 7 (verified, prepared and initialized), 16 (an array class).
StatusValues == {0, 1, 7, 16}

\* classSignature: the signature string of a class; a signature names one
\* class.
SignatureTable == <<"LA;", "LB;", "[I", "LC;", "[LA;", "LD;">>

classSignature(klass) == SignatureTable[klass]

VARIABLES
    \* the virtual machine
    alive,            \* alive[c]: class object c has not been unloaded
    tagOf,            \* tagOf[c]: tag of class object c in trackingEnv, 0 = none
    foreign,          \* tags carried by a live object the tracker did not tag
    \* tracker statics
    list,             \* static KlassNode *list
    trackingEnv,      \* static jvmtiEnv *trackingEnv (NULL or the session number)
    currentKlassTag,  \* static jlong currentKlassTag
    heap,             \* the KlassNode allocations, in allocation order
    \* the running operation
    pc,               \* position of the thread that calls the module
    ret,              \* where classTrack_addPreparedClass returns to
    klass,            \* classTrack_addPreparedClass: argument
    newNode,          \* classTrack_addPreparedClass: node
    classes,          \* classTrack_initialize: classes
    i,                \* classTrack_initialize: i (1-based)
    node,             \* classTrack_processUnloads / deleteList: node
    previousNext,     \* classTrack_processUnloads: previousNext (NULL = &list, n = &n->next)
    toDeleteList,     \* classTrack_processUnloads: toDeleteList
    anyRemoved,       \* classTrack_processUnloads: anyRemoved
    next,             \* deleteList: next
    signatures,       \* deleteList: the bag being filled
    exitError,        \* message of the EXIT_ERROR that ended the process
    assertOn,         \* gdata->assertOn
    assertFailed,     \* JDI_ASSERT_FAILED was reached
    \* caller and observation
    session,          \* "none", "active" or "reset": what the agent did last to the tracker
    epoch,            \* number of classTrack_initialize calls so far
    lastOp,           \* the operation that returned last
    result,           \* the bag returned by the last classTrack_processUnloads
    queries,          \* the GetObjectsWithTags calls of the current/last pass: <<tag, count>>
    passStart,        \* the registry (nodes, their tags) and the counter when the current/last pass started
    statusSeen,       \* the classStatus answers of the current/last classTrack_initialize
    enumSeen,         \* the classes allLoadedClasses gave the current/last classTrack_initialize
    prevOp,           \* the operation that had returned last when the current/last one was called
    \* a second thread
    races,            \* the adds a thread made without the handlerLock while a pass ran
    \* the DDM command set
    ddm               \* the running/last chunk command: its locals, streams and buffers

world   == <<alive, tagOf, foreign>>
statics == <<list, trackingEnv, currentKlassTag>>
addLoc  == <<ret, klass, newNode>>
initLoc == <<classes, i>>
passLoc == <<node, previousNext, toDeleteList, anyRemoved, next, signatures>>
observe == <<lastOp, result, queries, passStart, statusSeen, enumSeen, prevOp>>
fixed   == <<assertOn, races, ddm>>
vars    == <<alive, tagOf, foreign, list, trackingEnv, currentKlassTag, heap,
             pc, ret, klass, newNode, classes, i, node, previousNext,
             toDeleteList, anyRemoved, next, signatures, exitError, assertOn,
             assertFailed, session, epoch, lastOp, result, queries, passStart,
             statusSeen, enumSeen, prevOp, races, ddm>>

\* ---------------------------------------------------------------- helpers
RECURSIVE BitAnd(_, _)
BitAnd(a, b) ==
    IF a = 0 \/ b = 0 THEN 0
    ELSE (a % 2) * (b % 2) + 2 * BitAnd(a \div 2, b \div 2)

RECURSIVE BitOr(_, _)
BitOr(a, b) ==
    IF a = 0 THEN b
    ELSE IF b = 0 THEN a
    ELSE (IF a % 2 = 1 \/ b % 2 = 1 THEN 1 ELSE 0) + 2 * BitOr(a \div 2, b \div 2)

\* The nodes reachable from head through next, head first.
RECURSIVE Chain(_, _, _)
Chain(h, head, fuel) ==
    IF head = NULL \/ fuel = 0 THEN << >>
    ELSE <<head>> \o Chain(h, h[head].next, fuel - 1)

ListOf(h, head) == Chain(h, head, Len(h))

Range(s) == {s[k] : k \in DOMAIN s}

\* All orderings of the set S.
RECURSIVE Orderings(_)
Orderings(S) ==
    IF S = {} THEN {<< >>}
    ELSE UNION {{<<x>> \o o : o \in Orderings(S \ {x})} : x \in S}

\* passStart when no pass has run since the last call.
NoPass == [nodes |-> << >>, tags |-> << >>, counter |-> 0]

\* ddm when no chunk command has been received.
NoChunk == [pc |-> "none"]

\* ------------------------------------------------------------------ Init
Init ==
    /\ alive = [c \in Classes |-> TRUE]
    /\ tagOf = [c \in Classes |-> 0]
    /\ foreign = {}
    /\ list = NULL
    /\ trackingEnv = NULL
    /\ currentKlassTag = 0
    /\ heap = << >>
    /\ pc = "idle"
    /\ ret = "idle"
    /\ klass = NULL
    /\ newNode = NULL
    /\ classes = << >>
    /\ i = 0
    /\ node = NULL
    /\ previousNext = NULL
    /\ toDeleteList = NULL
    /\ anyRemoved = FALSE
    /\ next = NULL
    /\ signatures = << >>
    /\ exitError = ""
    /\ assertOn \in BOOLEAN
    /\ assertFailed = FALSE
    /\ session = "none"
    /\ epoch = 0
    /\ lastOp = "none"
    /\ result = << >>
    /\ queries = << >>
    /\ passStart = NoPass
    /\ statusSeen = << >>
    /\ enumSeen = << >>
    /\ prevOp = "none"
    /\ races = << >>
    /\ ddm = NoChunk

\* EXIT_ERROR: the process ends; nothing runs after it.
Exit(msg) ==
    /\ pc' = "exit"
    /\ exitError' = msg

\* What a call of an operation wipes of the previous operation's record.
Forget ==
    /\ result' = << >>
    /\ queries' = << >>
    /\ passStart' = NoPass
    /\ statusSeen' = << >>
    /\ enumSeen' = << >>
    /\ prevOp' = lastOp

AddPcs  == {"add_check", "add_alloc", "add_sig", "add_tag", "add_settag", "add_insert"}
PassPcs == {"pu_loop", "dl_loop", "dl_next", "dl_free"}

\* ----------------------------------------------------------- environment
\* The classes a JNI reference of the running operation keeps alive.
Pinned ==
    (IF pc \in AddPcs THEN {klass} ELSE {})
        \cup (IF pc = "init_loop" \/ (pc \in AddPcs /\ ret = "init_loop")
              THEN Range(classes) ELSE {})

\* The virtual machine unloads class c; its tag goes with the object.
Unload(c) ==
    /\ pc # "exit"
    /\ alive[c]
    /\ c \notin Pinned
    /\ alive' = [alive EXCEPT ![c] = FALSE]
    /\ tagOf' = [tagOf EXCEPT ![c] = 0]
    /\ UNCHANGED <<foreign, statics, heap, pc, addLoc, initLoc, passLoc,
                   exitError, fixed, assertFailed, session, epoch, observe>>

\* Something outside the module attaches t, a tag the tracker has handed out,
\* to a live object of its own.
CorruptTag(t) ==
    /\ pc # "exit"
    /\ trackingEnv # NULL
    /\ Cardinality(foreign) < MaxForeign
    /\ t \in 1..currentKlassTag
    /\ t \notin foreign
    /\ foreign' = foreign \cup {t}
    /\ UNCHANGED <<alive, tagOf, statics, heap, pc, addLoc, initLoc, passLoc,
                   exitError, fixed, assertFailed, session, epoch, observe>>

\* GetObjectsWithTags(trackingEnv, 1, &tag, &res_count, NULL, NULL)
GetObjectsWithTags(tag) ==
    Cardinality({c \in Classes : alive[c] /\ tagOf[c] = tag})
        + (IF tag \in foreign THEN 1 ELSE 0)

\* ------------------------------------------------- classTrack_initialize
\* getSpecialJvmti: a new JVMTI environment, in which no object carries a tag.
getSpecialJvmti == epoch + 1

\* (JVMTI_CLASS_STATUS_PREPARED|JVMTI_CLASS_STATUS_ARRAY)
wanted == BitOr(JVMTI_CLASS_STATUS_PREPARED, JVMTI_CLASS_STATUS_ARRAY)

\* Mutant of IsWanted: the test made against the PREPARED flag alone.
IsWanted_preparedOnly(status) == BitAnd(status, JVMTI_CLASS_STATUS_PREPARED) # 0

\* (status & wanted) != 0
IsWanted(status) == BitAnd(status, wanted) # 0

\* Mutant of InitialTag: line 241 left out, the counter carries on.
InitialTag_carriesOn == currentKlassTag

\* Line 241: currentKlassTag = 0l
InitialTag == 0

\* Lines 237-250: the call, up to the first test of the for loop.
InitializeBody ==
    /\ pc = "idle"
    /\ epoch' = epoch + 1
    /\ session' = "active"
    /\ lastOp' = "running"
    /\ Forget
    /\ \E envOk \in BOOLEAN, enumOk \in BOOLEAN,
          order \in Orderings({c \in Classes : alive[c]}) :
          IF ~envOk
          THEN /\ trackingEnv' = NULL
               /\ Exit("Failed to allocate tag-tracking jvmtiEnv")
               /\ UNCHANGED <<tagOf, foreign, list, currentKlassTag, initLoc>>
          ELSE /\ trackingEnv' = getSpecialJvmti
               /\ tagOf' = [c \in Classes |-> 0]
               /\ foreign' = {}
               /\ currentKlassTag' = InitialTag
               /\ list' = NULL
               /\ IF ~enumOk
                  THEN /\ Exit("loaded classes array")
                       /\ UNCHANGED initLoc
                  ELSE /\ classes' = order
                       /\ i' = 1
                       /\ pc' = "init_loop"
                       /\ UNCHANGED exitError
    /\ UNCHANGED <<alive, heap, addLoc, passLoc, fixed, assertFailed>>

\* The agent starts: the first classTrack_initialize.
Initialize ==
    /\ session = "none"
    /\ InitializeBody

\* A new debugger session after classTrack_reset: classTrack_initialize again.
Reinitialize ==
    /\ session = "reset"
    /\ epoch < MaxInits
    /\ InitializeBody

\* Lines 252-263: one turn of the for loop: classStatus, the test, the call.
InitLoop ==
    /\ pc = "init_loop"
    /\ i <= Len(classes)
    /\ \E status \in StatusValues :
          /\ statusSeen' = Append(statusSeen, status)
          /\ enumSeen' = Append(enumSeen, classes[i])
          /\ i' = i + 1
          /\ IF IsWanted(status)
             THEN /\ klass' = classes[i]
                  /\ ret' = "init_loop"
                  /\ pc' = "add_check"
             ELSE UNCHANGED <<klass, ret, pc>>
    /\ UNCHANGED <<world, statics, heap, newNode, classes, passLoc, exitError,
                   fixed, assertFailed, session, epoch, lastOp, result,
                   queries, passStart, prevOp>>

\* The loop is over: jvmtiDeallocate(classes) and return.
InitReturn ==
    /\ pc = "init_loop"
    /\ i > Len(classes)
    /\ pc' = "idle"
    /\ classes' = << >>
    /\ i' = 0
    /\ lastOp' = "initialize"
    /\ UNCHANGED <<world, statics, heap, addLoc, passLoc, exitError, fixed,
                   assertFailed, session, epoch, result, queries, passStart,
                   statusSeen, enumSeen, prevOp>>

\* ------------------------------------------- classTrack_addPreparedClass
\* A class prepare event: the agent calls classTrack_addPreparedClass on a
\* class it has not added before.
AddCall(c) ==
    /\ pc = "idle"
    /\ session = "active"
    /\ alive[c]
    /\ tagOf[c] = 0
    /\ klass' = c
    /\ ret' = "idle"
    /\ pc' = "add_check"
    /\ lastOp' = "running"
    /\ Forget
    /\ UNCHANGED <<world, statics, heap, newNode, initLoc, passLoc, exitError,
                   fixed, assertFailed, session, epoch>>

\* The records allocated for a class that had a record already.
DupCount == Len(heap) - Cardinality({heap[n].klass : n \in DOMAIN heap})

\* A class prepare event for a class the tracker has tagged already: the
\* caller breaks the contract of classTrack_addPreparedClass.
AddDupCall(c) ==
    /\ pc = "idle"
    /\ session = "active"
    /\ DupCount < MaxDups
    /\ alive[c]
    /\ tagOf[c] # 0
    /\ klass' = c
    /\ ret' = "idle"
    /\ pc' = "add_check"
    /\ lastOp' = "running"
    /\ Forget
    /\ UNCHANGED <<world, statics, heap, newNode, initLoc, passLoc, exitError,
                   fixed, assertFailed, session, epoch>>

\* Mutant of CheckEnabled: the duplicate check is made in every build.
CheckEnabled_always(on) == TRUE

\* Line 196: if (gdata->assertOn)
CheckEnabled(on) == on

\* Lines 196-206: the duplicate check, made when assertions are on.  A
\* failed assertion is reported; whether the process goes on is
\* gdata->assertFatal.
AddCheck ==
    /\ pc = "add_check"
    /\ IF CheckEnabled(assertOn)
       THEN \E getTagOk \in BOOLEAN, assertFatal \in BOOLEAN :
               IF ~getTagOk
               THEN /\ Exit("unable to get-tag with class trackingEnv!")
                    /\ UNCHANGED assertFailed
               ELSE IF tagOf[klass] # 0
               THEN /\ assertFailed' = TRUE
                    /\ IF assertFatal
                       THEN Exit("Assertion Failed")
                       ELSE pc' = "add_alloc" /\ UNCHANGED exitError
               ELSE /\ pc' = "add_alloc"
                    /\ UNCHANGED <<exitError, assertFailed>>
       ELSE /\ pc' = "add_alloc"
            /\ UNCHANGED <<exitError, assertFailed>>
    /\ UNCHANGED <<world, statics, heap, addLoc, initLoc, passLoc, fixed,
                   session, epoch, observe>>

\* A KlassNode as jvmtiAllocate returns it, for class c.
FreshNode(c) ==
    [klass_tag |-> 0, signature |-> "", next |-> NULL,
     frees |-> 0, sigFrees |-> 0, tagged |-> FALSE, klass |-> c, epoch |-> epoch, inserted |-> FALSE]

\* jvmtiDeallocate(n)
Deallocate(h, n) == [h EXCEPT ![n].frees = @ + 1]

\* Lines 208-211: node = jvmtiAllocate(sizeof(KlassNode))
AddAlloc ==
    /\ pc = "add_alloc"
    /\ \E ok \in BOOLEAN :
          IF ~ok \/ Len(heap) >= MaxNodes
          THEN /\ Exit("KlassNode")
               /\ UNCHANGED <<heap, newNode>>
          ELSE /\ heap' = Append(heap, FreshNode(klass))
               /\ newNode' = Len(heap) + 1
               /\ pc' = "add_sig"
               /\ UNCHANGED exitError
    /\ UNCHANGED <<world, statics, ret, klass, initLoc, passLoc, fixed,
                   assertFailed, session, epoch, observe>>

\* Mutant of AddSig: the record is linked into the list as soon as it has
\* its signature, before the class is tagged.
AddSig_linksEarly ==
    /\ pc = "add_sig"
    /\ \E ok \in BOOLEAN :
          IF ~ok
          THEN /\ heap' = Deallocate(heap, newNode)
               /\ Exit("signature")
               /\ UNCHANGED list
          ELSE /\ heap' = [heap EXCEPT ![newNode].signature = classSignature(klass),
                                       ![newNode].next = list]
               /\ list' = newNode
               /\ pc' = "add_tag"
               /\ UNCHANGED exitError
    /\ UNCHANGED <<world, trackingEnv, currentKlassTag, addLoc, initLoc,
                   passLoc, fixed, assertFailed, session, epoch, observe>>

\* Lines 212-216: classSignature(klass, &(node->signature), NULL)
AddSig ==
    /\ pc = "add_sig"
    /\ \E ok \in BOOLEAN :
          IF ~ok
          THEN /\ heap' = Deallocate(heap, newNode)
               /\ Exit("signature")
          ELSE /\ heap' = [heap EXCEPT ![newNode].signature = classSignature(klass)]
               /\ pc' = "add_tag"
               /\ UNCHANGED exitError
    /\ UNCHANGED <<world, statics, addLoc, initLoc, passLoc, fixed,
                   assertFailed, session, epoch, observe>>

\* Mutant of NextTag: the counter is advanced twice.
NextTag_twice(cur) == cur + 2

\* Mutant of NextTag: a counter two bits wide, which wraps.
NextTag_wraps(cur) == (cur + 1) % 2

\* ++currentKlassTag
NextTag(cur) == cur + 1

\* Line 217: node->klass_tag = ++currentKlassTag
AddTag ==
    /\ pc = "add_tag"
    /\ currentKlassTag' = NextTag(currentKlassTag)
    /\ heap' = [heap EXCEPT ![newNode].klass_tag = currentKlassTag',
                            ![newNode].tagged = TRUE]
    /\ pc' = "add_settag"
    /\ UNCHANGED <<world, list, trackingEnv, addLoc, initLoc, passLoc,
                   exitError, fixed, assertFailed, session, epoch, observe>>

\* Mutant of TagArgument: SetTag is handed the counter's next value.
TagArgument_next(h, n, cur) == cur + 1

\* Line 218: the tag handed to SetTag, node->klass_tag
TagArgument(h, n, cur) == h[n].klass_tag

\* Mutant of AddSetTag: the error of SetTag is not looked at.
AddSetTag_ignoresError ==
    /\ pc = "add_settag"
    /\ \E ok \in BOOLEAN :
          tagOf' = IF ok
                   THEN [tagOf EXCEPT ![klass] = TagArgument(heap, newNode, currentKlassTag)]
                   ELSE tagOf
    /\ pc' = "add_insert"
    /\ UNCHANGED <<heap, exitError>>
    /\ UNCHANGED <<alive, foreign, statics, addLoc, initLoc, passLoc, fixed,
                   assertFailed, session, epoch, observe>>

\* Lines 218-223: SetTag(trackingEnv, klass, node->klass_tag)
AddSetTag ==
    /\ pc = "add_settag"
    /\ \E ok \in BOOLEAN :
          IF ~ok
          THEN /\ heap' = Deallocate([heap EXCEPT ![newNode].sigFrees = @ + 1], newNode)
               /\ Exit("SetTag")
               /\ UNCHANGED tagOf
          ELSE /\ tagOf' = [tagOf EXCEPT ![klass] = TagArgument(heap, newNode, currentKlassTag)]
               /\ pc' = "add_insert"
               /\ UNCHANGED <<heap, exitError>>
    /\ UNCHANGED <<alive, foreign, statics, addLoc, initLoc, passLoc, fixed,
                   assertFailed, session, epoch, observe>>

\* Mutant of InsertNode: the new record is linked behind the last one.
InsertNode_atTail(h, l, n) ==
    IF l = NULL
    THEN [heap |-> [h EXCEPT ![n].next = NULL], list |-> n]
    ELSE LET last == ListOf(h, l)[Len(ListOf(h, l))]
         IN  [heap |-> [h EXCEPT ![n].next = NULL, ![last].next = n], list |-> l]

\* Lines 226-227: node->next = list; list = node
InsertNode(h, l, n) == [heap |-> [h EXCEPT ![n].next = l], list |-> n]

\* Lines 225-228: the insertion and the return.
AddInsert ==
    /\ pc = "add_insert"
    /\ heap' = [InsertNode(heap, list, newNode).heap EXCEPT ![newNode].inserted = TRUE]
    /\ list' = InsertNode(heap, list, newNode).list
    /\ pc' = ret
    /\ ret' = "idle"
    /\ klass' = NULL
    /\ newNode' = NULL
    /\ lastOp' = IF ret = "idle" THEN "addPreparedClass" ELSE lastOp
    /\ UNCHANGED <<world, trackingEnv, currentKlassTag, initLoc, passLoc,
                   exitError, fixed, assertFailed, session, epoch, result,
                   queries, passStart, statusSeen, enumSeen, prevOp>>

\* --------------------------------------------- classTrack_processUnloads
\* Lines 159-162: the locals of a pass.
PassCall ==
    /\ pc = "idle"
    /\ session = "active"
    /\ toDeleteList' = NULL
    /\ anyRemoved' = FALSE
    /\ node' = list
    /\ previousNext' = NULL
    /\ pc' = "pu_loop"
    /\ lastOp' = "running"
    /\ result' = << >>
    /\ queries' = << >>
    /\ statusSeen' = << >>
    /\ enumSeen' = << >>
    /\ passStart' = [nodes |-> ListOf(heap, list),
                     tags |-> [k \in DOMAIN ListOf(heap, list) |->
                                  heap[ListOf(heap, list)[k]].klass_tag],
                     counter |-> currentKlassTag]
    /\ prevOp' = lastOp
    /\ UNCHANGED <<world, statics, heap, addLoc, initLoc, next, signatures,
                   exitError, fixed, assertFailed, session, epoch>>

\* Mutant of UnexpectedCount: only a negative count is refused.
UnexpectedCount_negativeOnly(res_count) == res_count < 0

\* Line 139: the answers isClassUnloaded takes for an internal error.
UnexpectedCount(res_count) == res_count # 0 /\ res_count # 1

\* Mutant of isClassUnloaded: the test of line 142 the wrong way round.
isClassUnloaded_inverted(res_count) == res_count # 0

\* Line 142: return res_count == 0 ? JNI_TRUE : JNI_FALSE
isClassUnloaded(res_count) == res_count = 0

\* *slot, for slot = &list (NULL) or &n->next (n)
Deref(h, l, slot) == IF slot = NULL THEN l ELSE h[slot].next

\* Mutant of RemoveNode: the removed record is linked behind the last
\* record of toDeleteList instead of in front of the first.
RemoveNode_queues(h, l, prev, n, del) ==
    LET h1 == IF prev = NULL THEN h ELSE [h EXCEPT ![prev].next = h[n].next]
        l1 == IF prev = NULL THEN h[n].next ELSE l
        last == ListOf(h, del)[Len(ListOf(h, del))]
    IN  IF del = NULL
        THEN [heap |-> [h1 EXCEPT ![n].next = NULL], list |-> l1,
              previousNext |-> prev, toDeleteList |-> n, anyRemoved |-> TRUE]
        ELSE [heap |-> [h1 EXCEPT ![n].next = NULL, ![last].next = n],
              list |-> l1, previousNext |-> prev, toDeleteList |-> del,
              anyRemoved |-> TRUE]

\* Mutant of RemoveNode: line 171 stores NULL, so that the records removed
\* before are no longer linked from toDeleteList.
RemoveNode_dropsChain(h, l, prev, n, del) ==
    LET h1 == IF prev = NULL THEN h ELSE [h EXCEPT ![prev].next = h[n].next]
        l1 == IF prev = NULL THEN h[n].next ELSE l
    IN  [heap |-> [h1 EXCEPT ![n].next = NULL], list |-> l1,
         previousNext |-> prev, toDeleteList |-> n, anyRemoved |-> TRUE]

\* Mutant of RemoveNode: the slot moves on after a removal as well.
RemoveNode_advances(h, l, prev, n, del) ==
    LET h1 == IF prev = NULL THEN h ELSE [h EXCEPT ![prev].next = h[n].next]
        l1 == IF prev = NULL THEN h[n].next ELSE l
    IN  [heap |-> [h1 EXCEPT ![n].next = del], list |-> l1,
         previousNext |-> n, toDeleteList |-> n, anyRemoved |-> TRUE]

\* Lines 169-173: the record n leaves the list for toDeleteList.
RemoveNode(h, l, prev, n, del) ==
    LET h1 == IF prev = NULL THEN h ELSE [h EXCEPT ![prev].next = h[n].next]
        l1 == IF prev = NULL THEN h[n].next ELSE l
    IN  [heap |-> [h1 EXCEPT ![n].next = del], list |-> l1,
         previousNext |-> prev, toDeleteList |-> n, anyRemoved |-> TRUE]

\* Mutant of KeepNode: line 171's store made in the surviving branch too.
KeepNode_relinks(h, l, prev, n, del, any) ==
    [heap |-> [h EXCEPT ![n].next = del], list |-> l, previousNext |-> n,
     toDeleteList |-> del, anyRemoved |-> any]

\* Line 178: the record n stays; the slot moves to its next field.
KeepNode(h, l, prev, n, del, any) ==
    [heap |-> h, list |-> l, previousNext |-> n, toDeleteList |-> del,
     anyRemoved |-> any]

\* Lines 164-181: one turn of the while loop.
PassQuery ==
    /\ pc = "pu_loop"
    /\ node # NULL
    /\ \E ok \in BOOLEAN :
          LET tag == heap[node].klass_tag
              res_count == GetObjectsWithTags(tag)
          IN  IF ~ok
              THEN /\ Exit("Failed GetObjectsWithTags for class tracking")
                   /\ UNCHANGED <<list, heap, node, previousNext, toDeleteList,
                                  anyRemoved, queries>>
              ELSE /\ queries' = Append(queries,
                                   [node |-> node, tag |-> tag, count |-> res_count])
                   /\ IF UnexpectedCount(res_count)
                      THEN /\ Exit("Unexpected extra tags in trackingEnv!")
                           /\ UNCHANGED <<list, heap, node, previousNext,
                                          toDeleteList, anyRemoved>>
                      ELSE LET r == IF isClassUnloaded(res_count)
                                    THEN RemoveNode(heap, list, previousNext, node,
                                                    toDeleteList)
                                    ELSE KeepNode(heap, list, previousNext, node,
                                                  toDeleteList, anyRemoved)
                           IN  /\ heap' = r.heap
                               /\ list' = r.list
                               /\ previousNext' = r.previousNext
                               /\ toDeleteList' = r.toDeleteList
                               /\ anyRemoved' = r.anyRemoved
                               /\ node' = Deref(r.heap, r.list, r.previousNext)
                               /\ UNCHANGED <<pc, exitError>>
    /\ UNCHANGED <<world, trackingEnv, currentKlassTag, addLoc, initLoc, next,
                   signatures, fixed, assertFailed, session, epoch, lastOp,
                   result, passStart, statusSeen, enumSeen, prevOp>>

\* Line 183 and lines 98-103: the loop is over; deleteList(toDeleteList)
\* creates the bag.
PassDelete ==
    /\ pc = "pu_loop"
    /\ node = NULL
    /\ \E ok \in BOOLEAN :
          IF ~ok
          THEN /\ Exit("signatures")
               /\ UNCHANGED <<node, signatures>>
          ELSE /\ signatures' = << >>
               /\ node' = toDeleteList
               /\ pc' = "dl_loop"
               /\ UNCHANGED exitError
    /\ UNCHANGED <<world, statics, heap, addLoc, initLoc, previousNext,
                   toDeleteList, anyRemoved, next, fixed, assertFailed,
                   session, epoch, observe>>

\* bagAdd and the store through the pointer it returns: the new item is
\* the last of the bag.
bagAdd(bag, item) == Append(bag, item)

\* Lines 110-114: sigSpot = bagAdd(signatures); *sigSpot = node->signature
DlAdd ==
    /\ pc = "dl_loop"
    /\ node # NULL
    /\ \E ok \in BOOLEAN :
          IF ~ok
          THEN /\ Exit("signature bag")
               /\ UNCHANGED signatures
          ELSE /\ signatures' = bagAdd(signatures, heap[node].signature)
               /\ pc' = "dl_next"
               /\ UNCHANGED exitError
    /\ UNCHANGED <<world, statics, heap, addLoc, initLoc, node, previousNext,
                   toDeleteList, anyRemoved, next, fixed, assertFailed,
                   session, epoch, observe>>

\* Line 117: next = node->next
DlNext ==
    /\ pc = "dl_next"
    /\ next' = heap[node].next
    /\ pc' = "dl_free"
    /\ UNCHANGED <<world, statics, heap, addLoc, initLoc, node, previousNext,
                   toDeleteList, anyRemoved, signatures, exitError, fixed,
                   assertFailed, session, epoch, observe>>

\* Lines 118-120: jvmtiDeallocate(node); node = next
DlFree ==
    /\ pc = "dl_free"
    /\ heap' = Deallocate(heap, node)
    /\ node' = next
    /\ pc' = "dl_loop"
    /\ UNCHANGED <<world, statics, addLoc, initLoc, previousNext, toDeleteList,
                   anyRemoved, next, signatures, exitError, fixed,
                   assertFailed, session, epoch, observe>>

\* Line 123 and line 183: return signatures
PassReturn ==
    /\ pc = "dl_loop"
    /\ node = NULL
    /\ result' = signatures
    /\ lastOp' = "processUnloads"
    /\ pc' = "idle"
    /\ signatures' = << >>
    /\ previousNext' = NULL
    /\ toDeleteList' = NULL
    /\ anyRemoved' = FALSE
    /\ next' = NULL
    /\ UNCHANGED <<world, statics, heap, addLoc, initLoc, node, exitError,
                   fixed, assertFailed, session, epoch, queries, passStart,
                   statusSeen, enumSeen, prevOp>>

\* ------------------------------------------------------ classTrack_reset
\* Lines 273-276: the body is empty.
Reset ==
    /\ pc = "idle"
    /\ session = "active"
    /\ session' = "reset"
    /\ lastOp' = "reset"
    /\ Forget
    /\ UNCHANGED <<world, statics, heap, pc, addLoc, initLoc, passLoc,
                   exitError, fixed, assertFailed, epoch>>

\* ---------------------------------------------- a caller without the lock
\* classTrack_addPreparedClass run to its end by a second thread that does
\* not hold the handlerLock, between two steps of a pass of the first
\* thread (the two stores of lines 226-227 are not separated).  races
\* records the record inserted, the pass (by the registry it started with)
\* and where its walk was: how many records it had examined and whether
\* its slot was still &list with a record left to examine.
RacingAdd(c) ==
    /\ pc \in PassPcs
    /\ Len(races) < MaxRaces
    /\ Len(heap) < MaxNodes
    /\ alive[c]
    /\ tagOf[c] = 0
    /\ LET n == Len(heap) + 1
           tag == NextTag(currentKlassTag)
           rec == [FreshNode(c) EXCEPT !.signature = classSignature(c),
                                       !.klass_tag = tag, !.tagged = TRUE]
           ins == InsertNode(Append(heap, rec), list, n)
       IN  /\ currentKlassTag' = tag
           /\ tagOf' = [tagOf EXCEPT ![c] = tag]
           /\ heap' = [ins.heap EXCEPT ![n].inserted = TRUE]
           /\ list' = ins.list
           /\ races' = Append(races,
                              [node |-> n,
                               pass |-> passStart,
                               examined |-> Len(queries),
                               headSlot |-> /\ pc = "pu_loop"
                                            /\ previousNext = NULL
                                            /\ node # NULL])
    /\ UNCHANGED <<alive, foreign, trackingEnv, pc, addLoc, initLoc, passLoc,
                   exitError, assertOn, ddm, assertFailed, session, epoch,
                   observe>>

\* ------------------------------------------------------------------ Next
Next ==
    \/ \E c \in Classes : Unload(c)
    \/ Initialize
    \/ InitLoop
    \/ InitReturn
    \/ \E c \in Classes : AddCall(c)
    \/ AddCheck
    \/ AddAlloc
    \/ AddSig
    \/ AddTag
    \/ AddSetTag
    \/ AddInsert
    \/ PassCall
    \/ PassQuery
    \/ PassDelete
    \/ DlAdd
    \/ DlNext
    \/ DlFree
    \/ PassReturn
    \/ Reset

\* One run of the agent: one initialization, class prepare events, passes,
\* and the reset at the end.
Spec == Init /\ [][Next]_vars

\* The same with an outside agent tagging objects in the tracking environment.
NextFaulty ==
    \/ Next
    \/ \E t \in 1..MaxNodes : CorruptTag(t)

SpecFaulty == Init /\ [][NextFaulty]_vars

\* The same with the agent serving several debugger sessions in a row.
NextRestart ==
    \/ Next
    \/ Reinitialize

SpecRestart == Init /\ [][NextRestart]_vars

\* The thread that called classTrack_processUnloads keeps running until the
\* call returns or the process exits.
PassStep ==
    PassQuery \/ PassDelete \/ DlAdd \/ DlNext \/ DlFree \/ PassReturn

SpecLive == Spec /\ WF_vars(PassStep)

\* The same with class prepare events for classes that are tracked already.
NextDup ==
    \/ Next
    \/ \E c \in Classes : AddDupCall(c)

SpecDup == Init /\ [][NextDup]_vars

\* The same with a second thread that adds classes without taking the
\* handlerLock.
NextUnlocked ==
    \/ Next
    \/ \E c \in Classes : RacingAdd(c)

SpecUnlocked == Init /\ [][NextUnlocked]_vars

\* ========================================================== DDMImpl.c
\* Model of the DDM command set (src/share/back/DDMImpl.c): the one command
\* chunk(in, out).  ddm holds the command's locals, what it did to the two
\* streams and the state of the two buffers.  The packet streams, the
\* allocator and the registered handler are outside the file: what they
\* return is drawn from small sets.
TypeValues == {1, 2}

\* Everything of the tracker, which the command does not touch.
tracker == <<world, statics, heap, pc, addLoc, initLoc, passLoc, exitError,
             assertOn, assertFailed, session, epoch, observe, races>>

\* The command has been dispatched with the packet in and the reply out;
\* gdata->ddm_process_chunk is set or NULL.
ChunkCall ==
    /\ ddm.pc \in {"none", "returned"}
    /\ \E registered \in BOOLEAN :
          ddm' = [pc |-> "read", handler |-> registered,
                  type_in |-> 0, len_in |-> 0, data_in |-> NULL,
                  inError |-> FALSE, inAllocated |-> FALSE, inFrees |-> 0,
                  calls |-> 0, error |-> "NONE",
                  type_out |-> 0, len_out |-> 0, data_out |-> NULL,
                  outAllocated |-> FALSE, outFrees |-> 0,
                  out |-> << >>, outError |-> "NONE", retval |-> "none"]
    /\ UNCHANGED tracker

\* jvmtiDeallocate(buffer): nothing is released through a NULL pointer.
Released(frees, buffer) == IF buffer = NULL THEN frees ELSE frees + 1

\* Lines 43-45: the two readInt calls, the allocation of len_in bytes and
\* readBytes into it.  data_in is the buffer handed to readBytes; the
\* stream is in error afterwards when the packet was too short for one of
\* the three reads.
ChunkRead ==
    /\ ddm.pc = "read"
    /\ \E t \in TypeValues, len \in 0..MaxLen, allocated \in BOOLEAN,
          streamError \in BOOLEAN :
          ddm' = [ddm EXCEPT !.type_in = t, !.len_in = len,
                             !.data_in = IF allocated THEN 1 ELSE NULL,
                             !.inAllocated = allocated,
                             !.inError = streamError,
                             !.pc = "check_error"]
    /\ UNCHANGED tracker

\* Lines 47-49: if (inStream_error(in)) return JNI_TRUE
ChunkCheckError ==
    /\ ddm.pc = "check_error"
    /\ ddm' = IF ddm.inError
              THEN [ddm EXCEPT !.retval = "JNI_TRUE", !.pc = "returned"]
              ELSE [ddm EXCEPT !.pc = "check_handler"]
    /\ UNCHANGED tracker

\* Lines 51-55: no handler is registered.
ChunkCheckHandler ==
    /\ ddm.pc = "check_handler"
    /\ ddm' = IF ~ddm.handler
              THEN [ddm EXCEPT !.inFrees = Released(@, ddm.data_in),
                               !.outError = "NOT_IMPLEMENTED",
                               !.retval = "JNI_TRUE", !.pc = "returned"]
              ELSE [ddm EXCEPT !.pc = "call"]
    /\ UNCHANGED tracker

\* Lines 58-64: gdata->ddm_process_chunk(...).  On success the handler
\* has set type_out, len_out and data_out, a buffer of its own; on failure
\* it has set none of them.
ChunkCallHandler ==
    /\ ddm.pc = "call"
    /\ \E err \in {"NONE", "INTERNAL"}, t \in TypeValues, len \in 0..MaxLen,
          allocated \in BOOLEAN :
          ddm' = IF err = "NONE"
                 THEN [ddm EXCEPT !.calls = @ + 1, !.error = err,
                                  !.type_out = t, !.len_out = len,
                                  !.data_out = IF allocated THEN 2 ELSE NULL,
                                  !.outAllocated = allocated,
                                  !.pc = "free_in"]
                 ELSE [ddm EXCEPT !.calls = @ + 1, !.error = err,
                                  !.pc = "free_in"]
    /\ UNCHANGED tracker

\* Line 66: jvmtiDeallocate(data_in)
ChunkFreeIn ==
    /\ ddm.pc = "free_in"
    /\ ddm' = [ddm EXCEPT !.inFrees = Released(@, ddm.data_in),
                          !.pc = "check_result"]
    /\ UNCHANGED tracker

\* Mutant of Suppressed: the handler's error is not tested.
Suppressed_never(error) == FALSE

\* Line 68: if (error != JVMTI_ERROR_NONE)
Suppressed(error) == error # "NONE"

\* Lines 68-74: the handler's error is logged and dropped.
ChunkCheckResult ==
    /\ ddm.pc = "check_result"
    /\ ddm' = IF Suppressed(ddm.error)
              THEN [ddm EXCEPT !.retval = "JNI_TRUE", !.pc = "returned"]
              ELSE [ddm EXCEPT !.pc = "write"]
    /\ UNCHANGED tracker

\* Lines 76-77: outStream_writeInt(out, type_out);
\* outStream_writeByteArray(out, len_out, data_out)
ChunkWrite ==
    /\ ddm.pc = "write"
    /\ ddm' = [ddm EXCEPT
                  !.out = @ \o <<[kind |-> "int", value |-> ddm.type_out],
                                 [kind |-> "bytes", length |-> ddm.len_out,
                                  data |-> ddm.data_out]>>,
                  !.pc = "free_out"]
    /\ UNCHANGED tracker

\* Lines 78-80: jvmtiDeallocate(data_out); return JNI_TRUE
ChunkFreeOut ==
    /\ ddm.pc = "free_out"
    /\ ddm' = [ddm EXCEPT !.outFrees = Released(@, ddm.data_out),
                          !.retval = "JNI_TRUE", !.pc = "returned"]
    /\ UNCHANGED tracker

\* The debugger sends chunk commands one after the other.
NextDDM ==
    \/ ChunkCall
    \/ ChunkRead
    \/ ChunkCheckError
    \/ ChunkCheckHandler
    \/ ChunkCallHandler
    \/ ChunkFreeIn
    \/ ChunkCheckResult
    \/ ChunkWrite
    \/ ChunkFreeOut

SpecDDM == Init /\ [][NextDDM]_vars

\* ================================================================ claims
Registry == ListOf(heap, list)

PassReturned == pc = "idle" /\ lastOp = "processUnloads"

\* The records of the registry at the start of the pass whose tag the
\* oracle answered n for.
Reported(n) ==
    {r \in Range(passStart.nodes) :
        \E k \in DOMAIN queries :
            queries[k].tag = heap[r].klass_tag /\ queries[k].count = n}

Occurrences(seq, x) == Cardinality({k \in DOMAIN seq : seq[k] = x})

\* C1: when a pass has returned, the returned collection holds exactly the
\* signatures of the records whose tag the oracle reported as carried by no
\* live object, each once, and the registry holds exactly the records whose
\* tag it reported live; every record of the starting registry is in one of
\* the two and none is in both.
C1_PassPartitions ==
    PassReturned =>
        /\ Range(result) = {heap[r].signature : r \in Reported(0)}
        /\ \A r \in Reported(0) : Occurrences(result, heap[r].signature) = 1
        /\ Len(result) = Cardinality(Reported(0))
        /\ Range(Registry) = Reported(1)
        /\ Len(Registry) = Cardinality(Reported(1))
        /\ Reported(0) \cap Reported(1) = {}
        /\ Reported(0) \cup Reported(1) = Range(passStart.nodes)

\* The registry {A, B, C} with B reported dead and A, C live.
C1_Witness ==
    /\ PassReturned
    /\ Len(passStart.nodes) = 3
    /\ Reported(0) = {passStart.nodes[2]}
    /\ result = <<heap[passStart.nodes[2]].signature>>
    /\ Registry = <<passStart.nodes[1], passStart.nodes[3]>>

\* The records of one initialization that have been given a tag.
Tagged(e) == {n \in DOMAIN heap : heap[n].tagged /\ heap[n].epoch = e}

TagsIncrease ==
    \A e \in 1..epoch : \A n, m \in Tagged(e) :
        n < m => heap[n].klass_tag < heap[m].klass_tag

PassKeepsCounter ==
    (pc \in PassPcs \/ pc' \in PassPcs) => currentKlassTag' = currentKlassTag

\* C2: within one initialization every tag an add assigns is greater than
\* every tag assigned before it (records are numbered in allocation order),
\* and no step of a processing pass changes the tag counter.
C2_TagsStrictlyIncrease == []TagsIncrease /\ [][PassKeepsCounter]_vars

\* An add that returned after a pass had deleted a record.
C2_Witness ==
    /\ pc = "idle"
    /\ lastOp = "addPreparedClass"
    /\ \E n \in DOMAIN heap : heap[n].frees = 1 /\ heap[n].klass_tag < heap[list].klass_tag
    /\ Cardinality(Tagged(epoch)) >= 3

AllLive == \A k \in DOMAIN queries : queries[k].count = 1

\* C3: a pass in which every answer is "live" returns an empty collection
\* and leaves the registry as it was: same records in the same order, same
\* tags, same counter.
C3_NoUnloadNoChange ==
    (PassReturned /\ AllLive) =>
        /\ result = << >>
        /\ Registry = passStart.nodes
        /\ \A k \in DOMAIN Registry : heap[Registry[k]].klass_tag = passStart.tags[k]
        /\ currentKlassTag = passStart.counter
        /\ \A r \in Range(Registry) : heap[r].frees = 0

\* The second of two passes in a row over two or more records, all live.
C3_Witness ==
    /\ PassReturned
    /\ AllLive
    /\ prevOp = "processUnloads"
    /\ Len(passStart.nodes) >= 2
    /\ Len(queries) = Len(passStart.nodes)

\* The records that have been inserted in the registry at some time.
Created == {n \in DOMAIN heap : heap[n].inserted}

\* C4: when classTrack_reset has returned, every record is released, the
\* registry is empty and the tracker is as it was before its first
\* initialization (no tracking environment, counter zero).
C4_ResetReleasesAll ==
    (pc = "idle" /\ lastOp = "reset") =>
        /\ list = NULL
        /\ \A n \in Created : heap[n].frees = 1
        /\ trackingEnv = NULL
        /\ currentKlassTag = 0

AllTagged == {n \in DOMAIN heap : heap[n].tagged}

\* C5 as stated: over the whole run, re-initializations included, no tag
\* value is assigned to two records.
C5_TagsDistinctForever ==
    \A n, m \in AllTagged : n # m => heap[n].klass_tag # heap[m].klass_tag

\* C5 as amended: the tags of one initialization are 1, 2, 3, ... in the
\* order of assignment, so no two records of the same initialization share
\* a tag, and each initialization starts again at 1.
C5_TagsCountFromOnePerInit ==
    \A e \in 1..epoch : \A n \in Tagged(e) :
        heap[n].klass_tag = Cardinality({m \in Tagged(e) : m < n}) + 1

\* Two records of different initializations that carry the same tag.
C5_Witness ==
    \E n, m \in AllTagged :
        /\ heap[n].epoch < heap[m].epoch
        /\ heap[n].klass_tag = heap[m].klass_tag
        /\ heap[m].inserted

InitReturned == pc = "idle" /\ lastOp = "initialize"

\* Whether the bit of flag (a power of two) is set in status.
HasFlag(status, flag) == (status \div flag) % 2 = 1

TrackedStatus(status) ==
    \/ HasFlag(status, JVMTI_CLASS_STATUS_PREPARED)
    \/ HasFlag(status, JVMTI_CLASS_STATUS_ARRAY)

\* The positions of the enumeration whose class is to be tracked.
TrackedPositions == {k \in DOMAIN statusSeen : TrackedStatus(statusSeen[k])}

\* The rank of position k among the tracked positions.
Rank(k) == Cardinality({j \in TrackedPositions : j <= k})

\* C6: when classTrack_initialize has returned, the registry holds one
\* record for each enumerated class whose status has the PREPARED or the
\* ARRAY flag and none for the others, the k-th such class of the
\* enumeration carries tag k, and the counter is their number.
C6_InitializeTracksPrepared ==
    InitReturned =>
        /\ Len(enumSeen) = Len(statusSeen)
        /\ {heap[r].klass : r \in Range(Registry)}
              = {enumSeen[k] : k \in TrackedPositions}
        /\ Len(Registry) = Cardinality(TrackedPositions)
        /\ \A k \in TrackedPositions :
              \E r \in Range(Registry) :
                  /\ heap[r].klass = enumSeen[k]
                  /\ heap[r].klass_tag = Rank(k)
                  /\ heap[r].signature = classSignature(enumSeen[k])
                  /\ alive[enumSeen[k]] => tagOf[enumSeen[k]] = Rank(k)
        /\ currentKlassTag = Cardinality(TrackedPositions)

\* An enumeration with a prepared class, an array class and one that is
\* neither, the untracked one in the middle.
C6_Witness ==
    /\ InitReturned
    /\ Len(statusSeen) = 3
    /\ statusSeen[2] = 1
    /\ {statusSeen[1], statusSeen[3]} = {7, JVMTI_CLASS_STATUS_ARRAY}
    /\ Len(Registry) = 2

Unexpected(k) == queries[k].count \notin {0, 1}

\* C7: a live-object count other than 0 or 1 ends the process at that very
\* query (it is the last query made, the pass has not returned and never
\* will: nothing runs after EXIT_ERROR); and a pass that has returned has
\* queried every record of the starting registry, head to tail, and got 0
\* or 1 each time.
C7_FaultyOracleIsFatal ==
    /\ \A k \in DOMAIN queries :
          Unexpected(k) =>
              /\ k = Len(queries)
              /\ pc = "exit"
              /\ exitError = "Unexpected extra tags in trackingEnv!"
              /\ lastOp = "running"
              /\ result = << >>
    /\ PassReturned =>
          /\ Len(queries) = Len(passStart.nodes)
          /\ \A k \in DOMAIN queries :
                /\ queries[k].node = passStart.nodes[k]
                /\ ~Unexpected(k)

\* Two live objects reported for the tag of the second record examined.
C7_Witness ==
    /\ pc = "exit"
    /\ Len(queries) = 2
    /\ queries[2].count = 2
    /\ queries[1].count = 0

\* C8: a pass called right after the add of a class D, and told that D's
\* tag is live, leaves D's record at the head of the registry with its tag,
\* unreleased, and D's signature is not in the returned collection.
C8_FreshClassSurvives ==
    (/\ PassReturned
     /\ prevOp = "addPreparedClass"
     /\ \E k \in DOMAIN queries :
           queries[k].tag = passStart.tags[1] /\ queries[k].count = 1)
    => LET D == passStart.nodes[1]
       IN  /\ heap[D].klass_tag = passStart.counter
           /\ list = D
           /\ heap[D].klass_tag = passStart.tags[1]
           /\ heap[D].frees = 0
           /\ heap[D].signature \notin Range(result)
           /\ heap[D].signature = classSignature(heap[D].klass)

\* D added to two older records, both of which the pass removes.
C8_Witness ==
    /\ PassReturned
    /\ prevOp = "addPreparedClass"
    /\ Len(passStart.nodes) = 3
    /\ Len(result) = 2
    /\ Registry = <<passStart.nodes[1]>>

\* C9: the registry holds at most one record per class, and the tag a live
\* tracked class carries in the tracking environment is the tag of its
\* record.
C9_OneRecordPerClass ==
    /\ \A a, b \in DOMAIN Registry :
          a # b => heap[Registry[a]].klass # heap[Registry[b]].klass
    /\ \A r \in Range(Registry) :
          alive[heap[r].klass] => tagOf[heap[r].klass] = heap[r].klass_tag

\* Two live tracked classes left by a pass that removed a third.
C9_Witness ==
    /\ PassReturned
    /\ Len(result) = 1
    /\ Len(Registry) = 2
    /\ \A r \in Range(Registry) : alive[heap[r].klass]

\* The pending-deletion chain of the running pass: toDeleteList while the
\* registry is walked, what is left of it while deleteList runs.
Pending ==
    IF pc = "pu_loop" THEN ListOf(heap, toDeleteList)
    ELSE IF pc \in {"dl_loop", "dl_next", "dl_free"} THEN ListOf(heap, node)
    ELSE << >>

Places(n) ==
    (IF n \in Range(Registry) THEN 1 ELSE 0)
        + (IF n \in Range(Pending) THEN 1 ELSE 0)
        + (IF heap[n].frees > 0 THEN 1 ELSE 0)

OnePlace ==
    pc # "exit" => \A n \in Created : Places(n) = 1 /\ heap[n].frees <= 1

ReleaseInOrder ==
    \A n \in Created :
        heap'[n].frees # heap[n].frees =>
            /\ pc = "dl_free"
            /\ node = n
            /\ next = heap[n].next
            /\ signatures # << >>
            /\ signatures[Len(signatures)] = heap[n].signature

RemovedAreReleased ==
    PassReturned =>
        \A n \in Range(passStart.nodes) \ Range(Registry) :
            /\ heap[n].frees = 1
            /\ Occurrences(result, heap[n].signature) = 1

\* C10: every record that has entered the registry is in exactly one of
\* the registry, the pending-deletion chain of the running pass, or
\* released; a record is released at most once, by deleteList, after its
\* signature went into the output and its next field was read; when a pass
\* has returned every record it removed is released and its signature is in
\* the output once.
C10_OnePlacePerRecord ==
    []OnePlace /\ [][ReleaseInOrder]_vars /\ []RemovedAreReleased

TagsDecrease ==
    \A a, b \in DOMAIN Registry :
        a < b => heap[Registry[a]].klass_tag > heap[Registry[b]].klass_tag

\* A step that grows the registry is the head insertion of the running add.
InsertOnlyAtHead ==
    Len(ListOf(heap', list')) > Len(Registry) =>
        /\ pc = "add_insert"
        /\ ListOf(heap', list') = <<newNode>> \o Registry
        /\ heap'[newNode].klass_tag = currentKlassTag

SurvivorsKeepOrder ==
    (pc \in PassPcs \/ PassReturned) =>
        Registry = SelectSeq(passStart.nodes,
                             LAMBDA n : n \in Range(Registry))

\* C11: within one initialization the registry is ordered most recent
\* first: tags strictly decrease from head to tail in every state, the only
\* step that adds a record puts it in front of the unchanged registry with
\* the counter's value as its tag, and during and after a pass the registry
\* is the starting registry without the removed records, the survivors in
\* their old relative order.
C11_MostRecentFirst ==
    []TagsDecrease /\ [][InsertOnlyAtHead]_vars /\ []SurvivorsKeepOrder

\* A pass over three records that removed the head only.
C11_Witness ==
    /\ PassReturned
    /\ Len(passStart.nodes) = 3
    /\ Registry = <<passStart.nodes[2], passStart.nodes[3]>>
    /\ heap[Registry[1]].klass_tag > heap[Registry[2]].klass_tag

\* The record the slot of the walk belongs to: the last examined record
\* that stayed, NULL (the head slot) when none has stayed.
LastKept ==
    LET K == {k \in DOMAIN queries : queries[k].count # 0}
    IN  IF K = {} THEN NULL
        ELSE queries[CHOOSE k \in K : \A j \in K : j <= k].node

QueriesFollowStart ==
    /\ Len(queries) <= Len(passStart.nodes)
    /\ \A k \in DOMAIN queries :
          /\ queries[k].node = passStart.nodes[k]
          /\ queries[k].tag = passStart.tags[k]

CursorFollowsStart ==
    pc = "pu_loop" =>
        /\ node = IF Len(queries) < Len(passStart.nodes)
                  THEN passStart.nodes[Len(queries) + 1]
                  ELSE NULL
        /\ previousNext = LastKept
        /\ Deref(heap, list, previousNext) = node

AllQueried ==
    (pc \in {"dl_loop", "dl_next", "dl_free"} \/ PassReturned) =>
        Len(queries) = Len(passStart.nodes)

PassTerminates == (pc \in PassPcs) ~> (pc \in {"idle", "exit"})

\* C12: a pass that is started ends (it returns or the process exits); its
\* k-th oracle query is for the tag of the k-th record of the registry it
\* started with, so that a finished walk has queried each starting record
\* once, head to tail, and nothing else; the slot of the walk is the next
\* field of the last examined record that stayed (the head slot when none
\* stayed), so it does not move when a record is removed, and the record
\* examined next is the former successor of the one just examined.
C12_PassQueriesEachOnce ==
    /\ []QueriesFollowStart
    /\ []CursorFollowsStart
    /\ []AllQueried
    /\ PassTerminates

\* A finished walk of three records whose first two were removed, one after
\* the other through the head slot, and whose third stayed.
C12_Witness ==
    /\ pc = "dl_loop"
    /\ Len(queries) = 3
    /\ queries[1].count = 0
    /\ queries[2].count = 0
    /\ queries[3].count = 1
    /\ list = passStart.nodes[3]

\* The record of the running classTrack_addPreparedClass, once allocated.
AddRunning == pc \in AddPcs /\ newNode # NULL

SignatureFetched(n) == heap[n].signature # ""

CounterAdvancedFor(n) == heap[n].tagged

\* The counter has moved once for each record that was given a tag.
CounterCountsTagged ==
    currentKlassTag = Cardinality({n \in DOMAIN heap : heap[n].tagged})

ReachableOnlyWhenTagged ==
    /\ AddRunning => newNode \notin Range(Registry)
    /\ pc = "add_insert" =>
          /\ CounterAdvancedFor(newNode)
          /\ tagOf[klass] = heap[newNode].klass_tag
    /\ \A n \in Range(Registry) : CounterAdvancedFor(n) /\ SignatureFetched(n)

AddFailures == {"KlassNode", "signature", "SetTag"}

\* No step of an add before the insertion touches the registry: the list
\* and the fields of its records stay as they are.
AddLeavesRegistry ==
    (pc \in AddPcs \ {"add_insert"}) =>
        /\ ListOf(heap', list') = Registry
        /\ \A n \in Range(Registry) : heap'[n] = heap[n]

\* A step that reports one of the three failures is taken from the step
\* that failed and ends the process.
FailureExits ==
    (exitError' \in AddFailures /\ exitError = "") =>
        /\ pc \in {"add_alloc", "add_sig", "add_settag"}
        /\ pc' = "exit"

NothingAfterExit == pc = "exit" => UNCHANGED vars

\* After one of the three failures the record of the failed add, if it was
\* allocated, is released and outside the registry, and every record of
\* the registry is one an earlier add inserted, unreleased.
FailedAddState ==
    exitError \in AddFailures =>
        /\ pc = "exit"
        /\ \A n \in Range(Registry) : heap[n].inserted /\ heap[n].frees = 0
        /\ exitError # "KlassNode" =>
              /\ newNode \notin Range(Registry)
              /\ ~heap[newNode].inserted
              /\ heap[newNode].frees = 1

\* C14: when the allocation of the record, the fetch of the signature or
\* the tagging fails inside classTrack_addPreparedClass, the process ends in
\* the fatal-error state and nothing runs after it; no step of the add up
\* to the failure has changed the list or a record of it, so the registry
\* is as it was before the call.
C14_FailedAddLeavesRegistry ==
    /\ [][AddLeavesRegistry]_vars
    /\ [][FailureExits]_vars
    /\ [][NothingAfterExit]_vars
    /\ []FailedAddState

\* SetTag failed for the third class added to a registry of two.
C14_Witness ==
    /\ pc = "exit"
    /\ exitError = "SetTag"
    /\ Len(Registry) = 2
    /\ newNode = 3
    /\ currentKlassTag = 3

\* The records the last pass removed, in the order the walk met them.
Spliced ==
    SelectSeq(passStart.nodes, LAMBDA n : n \notin Range(Registry))

Reverse(s) == [k \in 1..Len(s) |-> s[Len(s) + 1 - k]]

\* C15: the collection a pass returns lists the signatures of the removed
\* records in the order deleteList released them, which is the reverse of
\* the order the walk spliced them out, and so the order of ascending tags.
C15_ResultAscendingByTag ==
    PassReturned =>
        /\ result = [k \in 1..Len(Spliced) |-> heap[Reverse(Spliced)[k]].signature]
        /\ \A j, k \in 1..Len(Spliced) :
              j < k => heap[Reverse(Spliced)[j]].klass_tag
                           < heap[Reverse(Spliced)[k]].klass_tag

\* The first and the third of three records removed: the third record's
\* signature comes first in the collection.
C15_Witness ==
    /\ PassReturned
    /\ Len(passStart.nodes) = 3
    /\ Spliced = <<passStart.nodes[1], passStart.nodes[3]>>
    /\ result = <<heap[passStart.nodes[3]].signature,
                  heap[passStart.nodes[1]].signature>>
    /\ result[1] # result[2]

\* The running add was called on a class that carried a tag: until SetTag
\* the class still carries the old one.
DuplicateAdd ==
    /\ pc \in {"add_alloc", "add_sig", "add_tag", "add_settag"}
    /\ tagOf[klass] # 0

\* The pairs <<newer, older>> of records of one class in the sequence s.
Doubles(s) ==
    {p \in Range(s) \X Range(s) :
        /\ heap[p[1]].klass = heap[p[2]].klass
        /\ heap[p[1]].klass_tag > heap[p[2]].klass_tag}

\* C16: the duplicate check is made only when assertions are enabled.  With
\* assertions on, an add on a class that carries a tag reaches the failed
\* assertion; with assertions off nothing is checked, the add goes through:
\* the class has a second record with a fresh tag and carries that tag, the
\* older record's tag is carried by no object, and the pass that follows
\* removes the older record and returns the signature of the class, loaded
\* or not.
C16_DuplicateCheckedOnlyWithAsserts ==
    /\ assertFailed => assertOn
    /\ (DuplicateAdd /\ assertOn) => assertFailed
    /\ (DuplicateAdd /\ ~assertOn) => (~assertFailed /\ exitError = "")
    /\ exitError = "Assertion Failed" => (assertOn /\ assertFailed)
    /\ \A p \in Doubles(Registry) :
          /\ GetObjectsWithTags(heap[p[2]].klass_tag) = 0
          /\ alive[heap[p[1]].klass] =>
                tagOf[heap[p[1]].klass] # heap[p[2]].klass_tag
    /\ PassReturned =>
          \A p \in Doubles(passStart.nodes) :
              /\ p[2] \notin Range(Registry)
              /\ heap[p[2]].frees = 1
              /\ classSignature(heap[p[2]].klass) \in Range(result)

\* Assertions off: a class was added twice, and the pass after the second
\* add returned its signature although the class is loaded and its newer
\* record is still the head of the registry.
C16_Witness ==
    /\ ~assertOn
    /\ ~assertFailed
    /\ PassReturned
    /\ prevOp = "addPreparedClass"
    /\ \E p \in Doubles(passStart.nodes) :
          /\ alive[heap[p[1]].klass]
          /\ list = p[1]
          /\ tagOf[heap[p[1]].klass] = heap[p[1]].klass_tag
          /\ result = <<classSignature(heap[p[1]].klass)>>

\* A record that was inserted and is now neither in the registry nor in
\* the pending-deletion chain nor released.
Lost(n) ==
    /\ n \in Created
    /\ n \notin Range(Registry)
    /\ n \notin Range(Pending)
    /\ heap[n].frees = 0

\* The head insertion r fell between the read of the head and the removal
\* of the first record through the head slot.
CutOff(r) ==
    /\ r.headSlot
    /\ passStart = r.pass
    /\ Len(queries) > r.examined
    /\ queries[r.examined + 1].count = 0

\* C17: the module takes no lock.  When an add's head insertion falls
\* between two steps of a running pass, after the pass read the head and
\* before it rewrites the head slot to splice out a dead first record, the
\* added record is dropped: it is not in the registry, it is not released
\* and its signature is not reported.  A record is lost in no other way: as
\* long as every operation has run alone (under the lock) no record is
\* lost.
C17_UnlockedAddIsLost ==
    pc # "exit" =>
        /\ \A k \in DOMAIN races :
              CutOff(races[k]) =>
                  /\ Lost(races[k].node)
                  /\ heap[races[k].node].signature
                         \notin Range(signatures) \cup Range(result)
        /\ \A n \in Created :
              Lost(n) => \E k \in DOMAIN races :
                            races[k].node = n /\ races[k].headSlot
        /\ races = << >> => \A n \in Created : ~Lost(n)

\* A pass has returned; the class a second thread added while the pass was
\* at its first record is loaded and tagged, and its record is lost.
C17_Witness ==
    /\ PassReturned
    /\ races # << >>
    /\ CutOff(races[1])
    /\ Lost(races[1].node)
    /\ alive[heap[races[1].node].klass]
    /\ tagOf[heap[races[1].node].klass] = heap[races[1].node].klass_tag
    /\ heap[races[1].node].signature \notin Range(result)

\* The records passes have removed and released.
Removed == {n \in Created : heap[n].frees > 0}

\* The record of the running add that has its tag and is not yet inserted.
InFlight ==
    IF pc \in {"add_settag", "add_insert"} THEN 1 ELSE 0

\* C18: after classTrack_initialize, within one initialization and short of
\* a fatal error, every tag in the registry is nonzero and lies in
\* 1..currentKlassTag, and whenever no operation is running the number of
\* records in the registry plus the number of records earlier passes removed
\* is currentKlassTag.  While an operation runs the records of the pending
\* chain and the tagged record not yet inserted make up the difference.
C18_CounterCountsRecords ==
    (pc # "exit" /\ epoch >= 1) =>
        /\ \A n \in Range(Registry) :
              /\ heap[n].klass_tag # 0
              /\ heap[n].klass_tag \in 1..currentKlassTag
        /\ pc = "idle" =>
              Len(Registry) + Cardinality(Removed) = currentKlassTag
        /\ Len(Registry) + Cardinality(Removed) + Len(Pending) + InFlight
              = currentKlassTag

\* Three classes were added, a pass removed one of them, and a second pass
\* found nothing to remove.
C18_Witness ==
    /\ PassReturned
    /\ prevOp = "processUnloads"
    /\ currentKlassTag = 3
    /\ Len(Registry) = 2
    /\ Cardinality(Removed) = 1
    /\ result = << >>

ChunkReturned == ddm.pc = "returned"

\* What the success path writes: the output type, then the byte array.
Reply ==
    <<[kind |-> "int", value |-> ddm.type_out],
      [kind |-> "bytes", length |-> ddm.len_out, data |-> ddm.data_out]>>

ChunkSucceeded ==
    ~ddm.inError /\ ddm.handler /\ ddm.calls = 1 /\ ddm.error = "NONE"

C20_BuffersReleasedOnce ==
    /\ ddm.pc # "none" => (ddm.inFrees <= 1 /\ ddm.outFrees <= 1)
    /\ ChunkReturned =>
          /\ ddm.inAllocated => ddm.inFrees = 1
          /\ (ChunkSucceeded /\ ddm.outAllocated) => ddm.outFrees = 1
          /\ ~ChunkSucceeded => ddm.outFrees = 0

====
